---- MODULE Spec2Model ----
(***************************************************************************)
(* A model of the real-time power detector of                              *)
(* 02_Intro_Deep_Learning_Part1: the PowerDetector class (construction and *)
(* detect), the PowerDetectorWriter and PowerDetectorPlot collaborators,   *)
(* and the receive loop of detect_and_record.main.                         *)
(*                                                                         *)
(* Numbers.  Samples are pairs <<I, Q>> of integers.  The FIR taps are the *)
(* Kaiser-windowed firwin taps times 1000, rounded, so the decimated       *)
(* envelope is carried in thousandths; the linear threshold                *)
(* 10^(thresh_db/10) is carried in thousandths too, which is exact for the *)
(* thresh_db values used, up to rounding down to a thousandth.  float32    *)
(* rounding is not modelled.                                               *)
(*                                                                         *)
(* Arrays are sequences (1-based); a 2-D array is a sequence of rows.      *)
(***************************************************************************)
EXTENDS Integers, Sequences, FiniteSets, TLC

(***************************************************************************)
(* Bounds of the model.                                                    *)
(***************************************************************************)
MaxBuffLen == 6          \* PowerDetector: longest buffer handed to the class
MaxDec == 3              \* PowerDetector: largest decimation factor
MaxSampAboveThresh == 3  \* PowerDetector: largest samp_above_thresh
MaxCalls == 2            \* PowerDetector: most detect calls after construction
MaxSegs == 2             \* main: most segments per receive buffer
MaxReads == 3            \* main: most readStream calls in one run
MaxFiles == 2            \* main: largest finite -n num_files

(***************************************************************************)
(* Program constants.                                                      *)
(***************************************************************************)
DefaultSampAboveThresh == 4
SOAPY_SDR_OVERFLOW == -4
SOAPY_SDR_TIMEOUT == -1

(***************************************************************************)
(* Input sets.                                                             *)
(***************************************************************************)
\* complex samples <<I, Q>>: silence and a sample of power 10
Samples == {<<0, 0>>, <<1, 3>>}

\* thresh_db values handed to the class; 10^(thresh_db/10) is 1, 3.16.., 10
ThreshDbs == {0, 5, 10}

Buffers(n) == [1..n -> Samples]

(***************************************************************************)
(* Python and NumPy/CuPy helpers used by the class.                        *)
(***************************************************************************)
\* int(a / b) for a >= 0, b > 0
IntDiv(a, b) == a \div b

CeilDiv(a, b) == (a + b - 1) \div b

Zeros(n) == [i \in 1..n |-> 0]

Falses(n) == [i \in 1..n |-> FALSE]

ValueError == "ValueError"
AssertionError == "AssertionError"
AttributeError == "AttributeError"
NoError == "none"

\* a[:] = v : v must have a's length, or one element, which is broadcast
CanSetAll(a, v) == Len(v) = Len(a) \/ Len(v) = 1

SetAll(a, v) ==
    IF Len(v) = Len(a) THEN v ELSE [i \in 1..Len(a) |-> v[1]]

\* a.reshape(-1, cols)
CanReshape(a, cols) == cols > 0 /\ Len(a) % cols = 0

Reshape(a, cols) ==
    [r \in 1..(Len(a) \div cols) |->
        [c \in 1..cols |-> a[(r - 1) * cols + c]]]

\* m[mask] : the rows of m whose mask entry is true, in order
RECURSIVE BoolIndex(_, _)
BoolIndex(m, mask) ==
    IF Len(m) = 0 THEN <<>>
    ELSE IF Head(mask)
         THEN <<Head(m)>> \o BoolIndex(Tail(m), Tail(mask))
         ELSE BoolIndex(Tail(m), Tail(mask))

\* cp.sum(row) of a boolean row
RECURSIVE SumBool(_)
SumBool(row) ==
    IF Len(row) = 0 THEN 0
    ELSE (IF Head(row) THEN 1 ELSE 0) + SumBool(Tail(row))

(***************************************************************************)
(* PowerDetector                                                           *)
(***************************************************************************)
\* _create_fir_filter_window: firwin(2*dec+1, 1/dec, window=('kaiser', 0.5)),
\* in thousandths
CreateFirFilterWindow(dec) ==
    CASE dec = 2 -> <<0, 278, 444, 278, 0>>
      [] dec = 3 -> <<0, 117, 238, 290, 238, 117, 0>>
      [] dec = 4 -> <<0, 63, 135, 194, 216, 194, 135, 63, 0>>
      [] dec = 5 -> <<0, 39, 85, 129, 161, 172, 161, 129, 85, 39, 0>>

\* 10 ** (thresh_db / 10), in thousandths, rounded down: an integer envelope
\* value is above the threshold iff it is above the rounded one
ThreshLinear(thresh_db) ==
    CASE thresh_db = -30 -> 1
      [] thresh_db = 0 -> 1000
      [] thresh_db = 5 -> 3162
      [] thresh_db = 10 -> 10000

\* cp.power(cp.abs(x), 2)
XPower(x) == [i \in 1..Len(x) |-> x[i][1] * x[i][1] + x[i][2] * x[i][2]]

\* one output sample of the zero-phase FIR: the taps centred on input index c
\* (0-based), the input taken as zero outside the buffer
RECURSIVE TapSum(_, _, _, _)
TapSum(xp, win, c, m) ==
    IF m > (Len(win) - 1) \div 2 THEN 0
    ELSE LET i == c - m + 1
             h == win[m + (Len(win) - 1) \div 2 + 1]
         IN (IF i >= 1 /\ i <= Len(xp) THEN h * xp[i] ELSE 0)
            + TapSum(xp, win, c, m + 1)

\* cusignal.decimate(x_power, dec, n=win, zero_phase=True)
Decimate(xp, dec, win) ==
    [o \in 1..CeilDiv(Len(xp), dec) |->
        TapSum(xp, win, (o - 1) * dec, -((Len(win) - 1) \div 2))]

\* (mutants of AboveThresh: the comparison made inclusive, and turned round)
AboveThreshInclusive(v, thresh) == v >= thresh

AboveThreshReversed(v, thresh) == v < thresh

\* x_power_dec_mat > self._thresh
AboveThresh(v, thresh) == v > thresh

\* (mutant of EnoughSamples: the comparison turned round)
EnoughSamplesReversed(count, samp_above_thresh) == count < samp_above_thresh

\* cp.sum(x_det_dec_mat, axis=1) > self._samp_above_thresh
EnoughSamples(count, samp_above_thresh) == count > samp_above_thresh

RowFlags(mat, thresh, samp_above_thresh) ==
    [r \in 1..Len(mat) |->
        EnoughSamples(
            SumBool([c \in 1..Len(mat[r]) |-> AboveThresh(mat[r][c], thresh)]),
            samp_above_thresh)]

\* (mutant of SelectSegments: the mask inverted)
SelectSegmentsInverted(rows, mask) ==
    BoolIndex(rows, [i \in 1..Len(mask) |-> ~mask[i]])

\* x.reshape(-1, seg_len)[seg_det_index]
SelectSegments(rows, mask) == BoolIndex(rows, mask)

\* (mutant of StoreFlags: the new flags or-ed into the old ones)
StoreFlagsAccumulate(old, new) ==
    [i \in 1..Len(old) |-> old[i] \/ SetAll(old, new)[i]]

\* the working buffers after the two in-place writes of detect
StoreEnvelope(old, new) == SetAll(old, new)

StoreFlags(old, new) == SetAll(old, new)

\* no PowerDetector object
NoDetector == [none |-> "detector"]

\* the result of a call: the error raised (or none), the object afterwards
\* and the value returned
Raised(e, d) == [err |-> e, det |-> d, y |-> <<>>]

Returned(d, y) == [err |-> NoError, det |-> d, y |-> y]

\* detect, lines 122-125: select the flagged rows of x
DetectReturn(d, x) ==
    IF ~CanReshape(x, d.seg_len)
       \/ Len(x) \div d.seg_len # Len(d.seg_det_index)
    THEN Raised(ValueError, d)
    ELSE Returned(d, SelectSegments(Reshape(x, d.seg_len), d.seg_det_index))

\* detect, line 120: write the row flags into the working buffer
DetectIndex(d, x, rowdet) ==
    IF ~CanSetAll(d.seg_det_index, rowdet)
    THEN Raised(ValueError, d)
    ELSE CHOOSE r \in
            {DetectReturn(d2, x) :
                d2 \in {[d EXCEPT !.seg_det_index =
                                     StoreFlags(d.seg_det_index, rowdet)]}} :
            TRUE

\* detect, lines 113-120: segment the envelope and flag its rows
DetectFlags(d, x) ==
    IF ~CanReshape(d.x_power_dec, d.seg_len_dec)
    THEN Raised(ValueError, d)
    ELSE CHOOSE r \in
            {DetectIndex(d, x, rowdet) :
                rowdet \in {RowFlags(Reshape(d.x_power_dec, d.seg_len_dec),
                                     d.thresh, d.samp_above_thresh)}} :
            TRUE

\* detect, lines 109-111: write the decimated power into the working buffer
DetectStore(d, x, dec_out) ==
    IF ~CanSetAll(d.x_power_dec, dec_out)
    THEN Raised(ValueError, d)
    ELSE CHOOSE r \in
            {DetectFlags(d1, x) :
                d1 \in {[d EXCEPT !.x_power_dec =
                                     StoreEnvelope(d.x_power_dec, dec_out)]}} :
            TRUE

\* detect(x) on detector object d.  (Each intermediate array is bound once,
\* as the element of a one-element set.)
Detect(d, x) ==
    CHOOSE r \in
        {DetectStore(d, x, dec_out) :
            dec_out \in {Decimate(XPower(x), d.dec, d.win)}} :
        TRUE

\* (mutant of InitAssertion: seg_len not divided by dec)
InitAssertionUndecimated(seg_len, dec, samp_above_thresh) ==
    samp_above_thresh <= seg_len

\* the assertion that opens __init__
InitAssertion(seg_len, dec, samp_above_thresh) ==
    samp_above_thresh * dec <= seg_len

\* PowerDetector(buff, seg_len, dec, thresh_db, samp_above_thresh): the error
\* raised (or none), the object and what the warm-up detect returned
NewPowerDetector(buff, seg_len, dec, thresh_db, samp_above_thresh) ==
    IF ~InitAssertion(seg_len, dec, samp_above_thresh)
    THEN Raised(AssertionError, NoDetector)
    ELSE CHOOSE r \in
            {Detect(d0, buff) :
                d0 \in {[seg_len |-> seg_len,
                         dec |-> dec,
                         win |-> CreateFirFilterWindow(dec),
                         seg_len_dec |-> IntDiv(seg_len, dec),
                         thresh |-> ThreshLinear(thresh_db),
                         samp_above_thresh |-> samp_above_thresh,
                         x_power_dec |-> Zeros(IntDiv(Len(buff), dec)),
                         seg_det_index |->
                             Falses(IntDiv(Len(buff), seg_len))]}} :
            TRUE

(***************************************************************************)
(* State.                                                                  *)
(***************************************************************************)
VARIABLES
    pc,           \* where the program (or the user of the class) stands
    ctor,         \* the arguments PowerDetector was constructed with
    detr,         \* the PowerDetector object, NoDetector before/without one
    buff,         \* the sample buffer handed to the last detect
    det_signal,   \* what the last detect returned
    err,          \* the exception the last call raised, NoError if none
    calls,        \* detect calls made after construction
    pars,         \* main: the parsed command line
    sr,           \* main: sr.ret of the last readStream
    reads,        \* main: readStream calls so far
    stdout_O,     \* main: how many 'O' were printed
    writer,       \* main: the PowerDetectorWriter object
    files,        \* main: the counter values of the files written, in order
    plot,         \* main: what the plotter last drew
    stream,       \* main: the receive stream: "none", "active", "closed"
    exit_status,  \* main: the exit status once the process ended, else -1
    stage         \* main: per stage, the read whose buffer it last finished,
                  \*       and how many rows the last tofile call wrote

vars == <<pc, ctor, detr, buff, det_signal, err, calls, pars, sr, reads,
          stdout_O, writer, files, plot, stream, exit_status, stage>>

mainVars == <<pars, sr, reads, stdout_O, writer, files, plot, stream,
              exit_status, stage>>

NoArgs == [none |-> "args"]
NoWriter == [none |-> "writer"]
NoPlot == [none |-> "plot"]

NoStage == [detect |-> 0, write |-> 0, plot |-> 0, wrote |-> 0]

(***************************************************************************)
(* The class on its own: construct a detector with any arguments, then     *)
(* call detect with buffers of the configured length.                      *)
(***************************************************************************)
CtorArgs(n, seg_len, dec, thresh_db, samp_above_thresh) ==
    [buff_len |-> n, seg_len |-> seg_len, dec |-> dec,
     thresh_db |-> thresh_db, samp_above_thresh |-> samp_above_thresh]

DetInit ==
    /\ pc = "new"
    /\ ctor = NoArgs
    /\ detr = NoDetector
    /\ buff = <<>>
    /\ det_signal = <<>>
    /\ err = NoError
    /\ calls = 0
    /\ pars = NoArgs
    /\ sr = 0
    /\ reads = 0
    /\ stdout_O = 0
    /\ writer = NoWriter
    /\ files = <<>>
    /\ plot = NoPlot
    /\ stream = "none"
    /\ exit_status = -1
    /\ stage = NoStage

\* detector = PowerDetector(buff, seg_len, dec, thresh_db, samp_above_thresh)
DetNew ==
    /\ pc = "new"
    /\ \E n \in 1..MaxBuffLen, seg_len \in 1..MaxBuffLen, dec \in 2..MaxDec,
          thresh_db \in ThreshDbs, s \in 0..MaxSampAboveThresh :
         \E b \in Buffers(n) :
            \E r \in {NewPowerDetector(b, seg_len, dec, thresh_db, s)} :
               /\ ctor' = CtorArgs(n, seg_len, dec, thresh_db, s)
               /\ buff' = b
               /\ err' = r.err
               /\ pc' = IF r.err = NoError THEN "ready" ELSE "failed"
               /\ detr' = IF r.err = NoError THEN r.det ELSE NoDetector
               /\ det_signal' = r.y
    /\ UNCHANGED <<calls, mainVars>>

\* output_segments = detector.detect(buff)
DetDetect ==
    /\ pc = "ready"
    /\ calls < MaxCalls
    /\ \E b \in Buffers(ctor.buff_len) :
          \E r \in {Detect(detr, b)} :
             /\ buff' = b
             /\ detr' = r.det
             /\ det_signal' = r.y
             /\ err' = r.err
    /\ calls' = calls + 1
    /\ UNCHANGED <<pc, ctor, mainVars>>

DetNext == DetNew \/ DetDetect

SpecDetector == DetInit /\ [][DetNext]_vars

(***************************************************************************)
(* PowerDetectorWriter                                                     *)
(***************************************************************************)
\* num_files: an int from the command line, or float('inf')
Finite(n) == [fin |-> TRUE, n |-> n]

Infinite == [fin |-> FALSE, n |-> 0]

\* self._num_files > 0
NumFilesPositive(num_files) == ~num_files.fin \/ num_files.n > 0

\* (mutant of CtrReached: off by one)
CtrReachedLate(ctr, num_files) == num_files.fin /\ ctr > num_files.n

\* self._ctr >= self._num_files
CtrReached(ctr, num_files) == num_files.fin /\ ctr >= num_files.n

\* PowerDetectorWriter(output_path, label, num_files): _label, _output_path
\* and _ctr are set only when num_files > 0
NewWriter(num_files) ==
    IF NumFilesPositive(num_files)
    THEN [num_files |-> num_files, ctr |-> 0]
    ELSE [num_files |-> num_files]

\* the loop of tofile from row i on: the writer, the files written by this
\* call, the rows of the matrix it wrote, and how the call ended ("return",
\* "exit" for sys.exit(0), or the exception raised)
RECURSIVE ToFileLoop(_, _, _, _)
ToFileLoop(w, signal_matrix, i, written) ==
    IF i > Len(signal_matrix)
    THEN [writer |-> w, written |-> written, ended |-> "return"]
    ELSE IF "ctr" \notin DOMAIN w
    THEN [writer |-> w, written |-> written, ended |-> AttributeError]
    ELSE \* sig.tofile(<label>_<ctr>.bin); self._ctr += 1
         IF CtrReached(w.ctr + 1, w.num_files)
         THEN [writer |-> [w EXCEPT !.ctr = w.ctr + 1],
               written |-> Append(written,
                                  [ctr |-> w.ctr, sig |-> signal_matrix[i]]),
               ended |-> "exit"]
         ELSE ToFileLoop([w EXCEPT !.ctr = w.ctr + 1], signal_matrix, i + 1,
                         Append(written,
                                [ctr |-> w.ctr, sig |-> signal_matrix[i]]))

\* writer.tofile(signal_matrix)
ToFile(w, signal_matrix) == ToFileLoop(w, signal_matrix, 1, <<>>)

(***************************************************************************)
(* PowerDetectorPlot                                                       *)
(***************************************************************************)
\* PowerDetectorPlot(...): a figure with nothing drawn
NewPlot == [title |-> -1, sig |-> <<>>, det |-> <<>>, amp |-> <<>>]

\* det_idx.any()
AnyTrue(det_idx) == \E i \in 1..Len(det_idx) : det_idx[i]

\* plotter.update(sig_cplx, det_idx, amp_sq): redraws only on a detection
PlotUpdate(p, sig_cplx, det_idx, amp_sq) ==
    IF AnyTrue(det_idx)
    THEN [title |-> SumBool(det_idx), sig |-> sig_cplx, det |-> det_idx,
          amp |-> amp_sq]
    ELSE p

(***************************************************************************)
(* detect_and_record.main                                                  *)
(***************************************************************************)
\* the -d values tried
MainDecs == {2}

\* the -l values tried for a -d: samp_above_thresh is left at its default, so
\* seg_len/dec is one below it (rejected), equal to it, and one above it
MainSegLens(dec) ==
    {dec * (DefaultSampAboveThresh - 1), dec * DefaultSampAboveThresh,
     dec * (DefaultSampAboveThresh + 1)}

\* the -b values tried for a -l
MainBuffLens(seg_len) == {seg_len * k : k \in 1..MaxSegs}

\* the -t values tried: the default and a threshold no sample reaches
MainThresholds == {-30, 10}

\* the -n values tried, and the default
MainNumFiles == {Finite(n) : n \in 0..MaxFiles} \cup {Infinite}

\* what the receiver can put in the buffer: each segment silent or loud
StreamBuffers(n, seg_len) ==
    {[i \in 1..n |-> lv[((i - 1) \div seg_len) + 1]] :
        lv \in [1..CeilDiv(n, seg_len) -> Samples]}

\* (mutant of IsOverflow: the wrong return code)
IsOverflowWrongCode(ret) == ret = SOAPY_SDR_TIMEOUT

\* sr.ret == SOAPY_SDR_OVERFLOW
IsOverflow(ret) == ret = SOAPY_SDR_OVERFLOW

\* (mutant of AfterToFile: the plotter left out)
AfterToFileNoPlot(visualization) == "read"

\* where the loop goes after writer.tofile returned
AfterToFile(visualization) == IF visualization THEN "plot" ELSE "read"

InLoop == pc \in {"read", "check", "write", "plot"}

MainInit ==
    /\ pc = "start"
    /\ ctor = NoArgs
    /\ detr = NoDetector
    /\ buff = <<>>
    /\ det_signal = <<>>
    /\ err = NoError
    /\ calls = 0
    /\ pars = NoArgs
    /\ sr = 0
    /\ reads = 0
    /\ stdout_O = 0
    /\ writer = NoWriter
    /\ files = <<>>
    /\ plot = NoPlot
    /\ stream = "none"
    /\ exit_status = -1
    /\ stage = NoStage

\* main, lines 42-64: parse the command line, build the buffer, the detector,
\* the writer and the plotter, and turn the radio on.  The shared-memory
\* buffer starts with whatever the memory holds.
MainSetup ==
    /\ pc = "start"
    /\ \E dec \in MainDecs, threshold \in MainThresholds,
          num_files \in MainNumFiles, visualization \in BOOLEAN :
         \E seg_len \in MainSegLens(dec) :
          \E buff_len \in MainBuffLens(seg_len) :
           \E b \in StreamBuffers(buff_len, seg_len) :
            \E r \in {NewPowerDetector(b, seg_len, dec, threshold,
                                       DefaultSampAboveThresh)} :
               /\ pars' = [seg_len |-> seg_len, dec |-> dec,
                           buff_len |-> buff_len, threshold |-> threshold,
                           num_files |-> num_files,
                           visualization |-> visualization]
               /\ ctor' = CtorArgs(buff_len, seg_len, dec, threshold,
                                   DefaultSampAboveThresh)
               /\ buff' = b
               /\ err' = r.err
               /\ IF r.err = NoError
                  THEN /\ detr' = r.det
                       /\ writer' = NewWriter(num_files)
                       /\ plot' = IF visualization THEN NewPlot ELSE NoPlot
                       /\ stream' = "active"
                       /\ pc' = "read"
                       /\ exit_status' = exit_status
                  ELSE /\ detr' = NoDetector
                       /\ writer' = writer
                       /\ plot' = plot
                       /\ stream' = stream
                       /\ pc' = "crashed"
                       /\ exit_status' = 1
    /\ UNCHANGED <<det_signal, calls, sr, reads, stdout_O, files, stage>>

\* line 68: sr = sdr.readStream(rx_stream, [buff], pars.buff_len).  A normal
\* read fills the buffer; an overflow leaves in it whatever the driver left; a
\* timeout leaves it as it was; a short read fills only the first sr.ret
\* samples.
MainRead ==
    /\ pc = "read"
    /\ reads < MaxReads
    /\ \E b \in StreamBuffers(pars.buff_len, pars.seg_len) :
          \/ /\ sr' = pars.buff_len
             /\ buff' = b
          \/ /\ sr' = SOAPY_SDR_OVERFLOW
             /\ buff' = b
          \/ /\ sr' = SOAPY_SDR_TIMEOUT
             /\ buff' = buff
          \/ \E k \in 1..((pars.buff_len \div pars.seg_len) - 1) :
                /\ sr' = k * pars.seg_len
                /\ buff' = [i \in 1..pars.buff_len |->
                               IF i <= k * pars.seg_len THEN b[i] ELSE buff[i]]
    /\ reads' = reads + 1
    /\ pc' = "check"
    /\ UNCHANGED <<ctor, detr, det_signal, err, calls, pars, stdout_O, writer,
                   files, plot, stream, exit_status, stage>>

\* lines 69-70: the read overflowed: print 'O' and go on with the next read
MainOverflow ==
    /\ pc = "check"
    /\ IsOverflow(sr)
    /\ stdout_O' = stdout_O + 1
    /\ pc' = "read"
    /\ UNCHANGED <<ctor, detr, buff, det_signal, err, calls, pars, sr, reads,
                   writer, files, plot, stream, exit_status, stage>>

\* line 72: det_signal = detr.detect(buff)
MainDetect ==
    /\ pc = "check"
    /\ ~IsOverflow(sr)
    /\ \E r \in {Detect(detr, buff)} :
          /\ detr' = r.det
          /\ det_signal' = r.y
          /\ err' = r.err
          /\ pc' = IF r.err = NoError THEN "write" ELSE "crashed"
          /\ exit_status' = IF r.err = NoError THEN exit_status ELSE 1
    /\ stage' = [stage EXCEPT !.detect = reads]
    /\ UNCHANGED <<ctor, buff, calls, pars, sr, reads, stdout_O, writer, files,
                   plot, stream>>

\* line 73: writer.tofile(det_signal); sys.exit(0) and an uncaught exception
\* both end the process where it stands
MainToFile ==
    /\ pc = "write"
    /\ \E r \in {ToFile(writer, det_signal)} :
          /\ writer' = r.writer
          /\ files' = files \o r.written
          /\ err' = IF r.ended \in {"return", "exit"} THEN err ELSE r.ended
          /\ pc' = CASE r.ended = "return" ->
                            AfterToFile(pars.visualization)
                     [] r.ended = "exit" -> "exited"
                     [] OTHER -> "crashed"
          /\ exit_status' = CASE r.ended = "return" -> exit_status
                              [] r.ended = "exit" -> 0
                              [] OTHER -> 1
          /\ stage' = IF r.ended = "return"
                      THEN [stage EXCEPT !.write = reads,
                                         !.wrote = Len(r.written)]
                      ELSE [stage EXCEPT !.wrote = Len(r.written)]
    /\ UNCHANGED <<ctor, detr, buff, det_signal, calls, pars, sr, reads,
                   stdout_O, plot, stream>>

\* lines 74-75: plotter.update(cp.asnumpy(buff), detr.det_index, detr.amp_sq)
MainPlot ==
    /\ pc = "plot"
    /\ plot' = PlotUpdate(plot, buff, detr.seg_det_index, detr.x_power_dec)
    /\ stage' = [stage EXCEPT !.plot = reads]
    /\ pc' = "read"
    /\ UNCHANGED <<ctor, detr, buff, det_signal, err, calls, pars, sr, reads,
                   stdout_O, writer, files, stream, exit_status>>

\* lines 76-79: ctrl-c inside the try block: deactivate and close the stream
\* and leave the loop
MainKeyboardInterrupt ==
    /\ InLoop
    /\ stream' = "closed"
    /\ pc' = "done"
    /\ exit_status' = 0
    /\ UNCHANGED <<ctor, detr, buff, det_signal, err, calls, pars, sr, reads,
                   stdout_O, writer, files, plot, stage>>

Next ==
    \/ MainSetup
    \/ MainRead
    \/ MainOverflow
    \/ MainDetect
    \/ MainToFile
    \/ MainPlot
    \/ MainKeyboardInterrupt

Spec == MainInit /\ [][Next]_vars

(***************************************************************************)
(* Claims about the class, checked under SpecDetector.                     *)
(***************************************************************************)
\* the detection flags of the detector object
Flags == detr.seg_det_index

\* the number of segment rows of the configured buffer
NumSegs == ctor.buff_len \div ctor.seg_len

\* the segment rows whose detection flag is true
Flagged == {i \in 1..Len(Flags) : Flags[i]}

\* the decimated-envelope samples of segment row i that are strictly above
\* T = 10^(thresh_db/10), as indices into the row
Above(i) ==
    {j \in 1..(ctor.seg_len \div ctor.dec) :
        detr.x_power_dec[(i - 1) * (ctor.seg_len \div ctor.dec) + j]
            > ThreshLinear(ctor.thresh_db)}

\* C1: after detect(x) on a buffer of the configured length, the returned
\* matrix holds exactly the flagged rows of x reshaped to (N/seg_len, seg_len):
\* the j-th returned row is the unmodified samples of the j-th flagged row (so
\* rows come in increasing i, none missing, none extra), hence at most
\* N/seg_len rows, each of exactly seg_len samples.
C1_DetectReturnsFlaggedRows ==
    (pc = "ready" /\ err = NoError) =>
        /\ Len(Flags) = NumSegs
        /\ Len(det_signal) = Cardinality(Flagged)
        /\ Len(det_signal) <= NumSegs
        /\ \A j \in 1..Len(det_signal) : Len(det_signal[j]) = ctor.seg_len
        /\ \A i \in Flagged :
              LET j == Cardinality({k \in Flagged : k <= i})
              IN \A c \in 1..ctor.seg_len :
                    det_signal[j][c] = buff[(i - 1) * ctor.seg_len + c]

\* a later detect call (not the warm-up) returned the first and the last of
\* three rows, which differ, and dropped the middle one
C1_Witness ==
    /\ pc = "ready"
    /\ calls > 0
    /\ Len(Flags) = 3
    /\ Flagged = {1, 3}
    /\ Len(det_signal) = 2
    /\ det_signal[1] # det_signal[2]

C3_AtLeastSampAboveThreshFlagged ==
    (pc = "ready" /\ err = NoError /\ ctor.samp_above_thresh >= 1) =>
        \A i \in 1..NumSegs :
            Cardinality(Above(i)) >= ctor.samp_above_thresh =>
                /\ Flags[i]
                /\ \E j \in 1..Len(det_signal) :
                      \A c \in 1..ctor.seg_len :
                          det_signal[j][c] = buff[(i - 1) * ctor.seg_len + c]

\* the construction invariants of a configuration
ValidConfig(a) ==
    /\ a.seg_len % a.dec = 0
    /\ a.samp_above_thresh * a.dec <= a.seg_len
    /\ a.buff_len % a.dec = 0
    /\ a.buff_len % a.seg_len = 0

\* C5: construction fails, and produces no detector object, for every
\* configuration that violates a construction invariant; every detector object
\* that exists satisfies all four invariants, and keeps the configuration and
\* the working-buffer lengths it was built with.
C5_ConstructionInvariants ==
    /\ (pc \in {"ready", "failed"} /\ ~ValidConfig(ctor)) =>
          (pc = "failed" /\ detr = NoDetector /\ err # NoError)
    /\ (detr # NoDetector) =>
          /\ pc = "ready"
          /\ ValidConfig(ctor)
          /\ detr.seg_len = ctor.seg_len
          /\ detr.dec = ctor.dec
          /\ detr.samp_above_thresh = ctor.samp_above_thresh
          /\ detr.seg_len_dec * detr.dec = detr.seg_len
          /\ Len(detr.x_power_dec) * detr.dec = ctor.buff_len
          /\ Len(detr.seg_det_index) * detr.seg_len = ctor.buff_len

\* a configuration that passes the assertion but whose seg_len is no multiple
\* of dec was rejected by the warm-up detect
C5_Witness ==
    /\ pc = "failed"
    /\ err = ValueError
    /\ ctor.seg_len % ctor.dec # 0
    /\ ctor.buff_len % ctor.seg_len = 0
    /\ ctor.buff_len % ctor.dec = 0
    /\ detr = NoDetector

\* what a freshly constructed detector with these arguments leaves after its
\* warm-up call on buffer x
Fresh(x, thresh_db, samp_above_thresh) ==
    NewPowerDetector(x, ctor.seg_len, ctor.dec, thresh_db, samp_above_thresh)

\* C7: whatever calls came before, detect leaves the flags, the envelope and
\* the returned segments that a freshly constructed detector of the same
\* configuration produces for a buffer of the same content.
C7_HistoryIndependent ==
    (pc = "ready" /\ err = NoError) =>
        \E f \in {Fresh(buff, ctor.thresh_db, ctor.samp_above_thresh)} :
            /\ f.err = NoError
            /\ detr.seg_det_index = f.det.seg_det_index
            /\ detr.x_power_dec = f.det.x_power_dec
            /\ det_signal = f.y

\* after two earlier calls, one of which had flagged every segment, a call
\* flags some segments and not others
C7_Witness ==
    /\ pc = "ready"
    /\ calls = 2
    /\ Flagged # {}
    /\ Flagged # 1..NumSegs

\* C8: for the same buffer, seg_len, dec and samp_above_thresh, a detector
\* with a higher thresh_db flags a subset of the segments flagged with a lower
\* one.
C8_ThresholdMonotone ==
    (pc = "ready" /\ err = NoError) =>
        \A db \in ThreshDbs :
            \E f \in {Fresh(buff, db, ctor.samp_above_thresh)} :
                /\ f.err = NoError
                /\ db >= ctor.thresh_db =>
                      \A i \in 1..NumSegs :
                          f.det.seg_det_index[i] => Flags[i]
                /\ db <= ctor.thresh_db =>
                      \A i \in 1..NumSegs :
                          Flags[i] => f.det.seg_det_index[i]

\* raising thresh_db loses a flagged segment and keeps another
C8_Witness ==
    /\ pc = "ready"
    /\ calls > 0
    /\ \E db \in ThreshDbs :
          /\ db > ctor.thresh_db
          /\ db < 10
          /\ \E f \in {Fresh(buff, db, ctor.samp_above_thresh)} :
                /\ \E i \in Flagged : ~f.det.seg_det_index[i]
                /\ \E i \in Flagged : f.det.seg_det_index[i]

\* C9: for the same buffer, seg_len, dec and thresh_db, a detector with a
\* higher accepted samp_above_thresh flags a subset of the segments flagged
\* with a lower one.
C9_MinEvidenceMonotone ==
    (pc = "ready" /\ err = NoError) =>
        \A s \in 0..MaxSampAboveThresh :
            InitAssertion(ctor.seg_len, ctor.dec, s) =>
                \E f \in {Fresh(buff, ctor.thresh_db, s)} :
                    /\ f.err = NoError
                    /\ s >= ctor.samp_above_thresh =>
                          \A i \in 1..NumSegs :
                              f.det.seg_det_index[i] => Flags[i]
                    /\ s <= ctor.samp_above_thresh =>
                          \A i \in 1..NumSegs :
                              Flags[i] => f.det.seg_det_index[i]

\* raising samp_above_thresh from a positive value to another accepted one
\* loses a flagged segment
C9_Witness ==
    /\ pc = "ready"
    /\ calls > 0
    /\ ctor.samp_above_thresh > 0
    /\ \E s \in 0..MaxSampAboveThresh :
          /\ s > ctor.samp_above_thresh
          /\ InitAssertion(ctor.seg_len, ctor.dec, s)
          /\ \E f \in {Fresh(buff, ctor.thresh_db, s)} :
                \E i \in Flagged : ~f.det.seg_det_index[i]

\* the decimated envelopes of the configured length whose samples are silent
\* or just above the threshold
Envelopes ==
    [1..Len(detr.x_power_dec) -> {0, detr.thresh + 1}]

\* the flags detect computes (lines 113-120) from decimated envelope e
FlagsOfEnvelope(e) ==
    DetectFlags([detr EXCEPT !.x_power_dec = e], buff).det.seg_det_index

\* C11: every configuration the constructor accepts can detect something:
\* there is a decimated envelope for which detect flags at least one segment;
\* in particular at the accepted boundary samp_above_thresh = seg_len/dec,
\* where a segment whose every sample is above the threshold should be flagged.
C11_AcceptedConfigCanDetect ==
    (pc = "ready" /\ err = NoError) =>
        \E e \in Envelopes : AnyTrue(FlagsOfEnvelope(e))

(***************************************************************************)
(* Claims about the receive loop and the writer, checked under Spec.       *)
(***************************************************************************)
\* C4: when the read for buffer k reports overflow, the step the loop takes
\* from there calls neither detect nor the writer nor the plotter (the
\* detector's flags and envelope, the returned segments, the files and the
\* plot stay as the last processed buffer left them), prints one 'O', and
\* goes on to the next read with the stream still active; the only other way
\* on is the user's ctrl-c.
C4_OverflowSkipsBuffer ==
    [][(pc = "check" /\ sr = SOAPY_SDR_OVERFLOW) =>
          /\ UNCHANGED <<detr, det_signal, writer, files, plot, stage, err>>
          /\ stage.detect < reads
          /\ \/ /\ pc' = "read"
                /\ stdout_O' = stdout_O + 1
                /\ UNCHANGED <<stream, exit_status>>
                /\ stream = "active"
             \/ /\ pc' = "done"
                /\ UNCHANGED stdout_O]_vars

\* an overflow was reported after a buffer with a detection had been
\* processed: the loop is back at the read, the 'O' is out, and the flags are
\* those of the processed buffer
C4_Witness ==
    /\ pc = "read"
    /\ sr = SOAPY_SDR_OVERFLOW
    /\ stdout_O >= 1
    /\ stage.detect >= 1
    /\ stage.detect < reads
    /\ AnyTrue(detr.seg_det_index)
    /\ reads < MaxReads

\* the files the last tofile call wrote hold the first rows of the matrix it
\* was given, in order
WroteRowsOf(signal_matrix) ==
    /\ stage.wrote <= Len(signal_matrix)
    /\ stage.wrote <= Len(files)
    /\ \A j \in 1..stage.wrote :
          files[Len(files) - stage.wrote + j].sig = signal_matrix[j]

\* C6: the loop is one buffer deep.  A buffer that was read without overflow
\* is detected, then its segments are written, then (with -v) it is plotted
\* with its flags and envelope, and only then is the next buffer read; no read
\* and no detect starts while the writer or the plotter still owes an earlier
\* buffer.
C6_SequentialPipeline ==
    /\ (pc = "check") => stage.detect < reads
    /\ (pc = "write") =>
          /\ ~IsOverflow(sr)
          /\ stage.detect = reads
          /\ stage.write < reads
    /\ (pc = "plot") =>
          /\ pars.visualization
          /\ stage.detect = reads
          /\ stage.write = reads
          /\ stage.plot < reads
    /\ (pc = "read" /\ reads > 0 /\ ~IsOverflow(sr)) =>
          /\ stage.detect = reads
          /\ stage.write = reads
          /\ pars.visualization => stage.plot = reads
    /\ (pc \in {"read", "check"}) =>
          /\ stage.write = stage.detect
          /\ pars.visualization => stage.plot = stage.detect
    /\ (InLoop /\ reads > 0 /\ stage.write = reads) =>
          /\ stage.wrote = Len(det_signal)
          /\ WroteRowsOf(det_signal)
    /\ (InLoop /\ reads > 0 /\ stage.plot = reads
            /\ AnyTrue(detr.seg_det_index)) =>
          /\ plot.sig = buff
          /\ plot.det = detr.seg_det_index
          /\ plot.amp = detr.x_power_dec

\* with -v, the second buffer has been detected, written and plotted, and the
\* loop stands before the third read
C6_Witness ==
    /\ pc = "read"
    /\ reads = 2
    /\ pars.visualization
    /\ stage.detect = 2
    /\ stage.write = 2
    /\ stage.plot = 2
    /\ stage.wrote >= 1
    /\ plot.sig = buff
    /\ Len(files) > stage.wrote

\* C10: the files written never outnumber num_files; the i-th file written
\* carries counter value i-1; the write that brings the counter to num_files
\* is followed at once by exit status 0, the rows after it left unwritten.
C10_NumFilesIsMaximum ==
    (writer # NoWriter) =>
        /\ writer.num_files.fin => Len(files) <= writer.num_files.n
        /\ \A i \in 1..Len(files) : files[i].ctr = i - 1
        /\ ("ctr" \in DOMAIN writer) => writer.ctr = Len(files)
        /\ (writer.num_files.fin /\ Len(files) >= 1
                /\ Len(files) = writer.num_files.n) =>
              (pc = "exited" /\ exit_status = 0)
        /\ (pc = "exited") =>
              /\ exit_status = 0
              /\ writer.num_files.fin
              /\ Len(files) = writer.num_files.n
              /\ stage.wrote >= 1
              /\ WroteRowsOf(det_signal)

\* the second file was the first of two detected rows: the process exited
\* with status 0 and the second row was not written
C10_Witness ==
    /\ pc = "exited"
    /\ exit_status = 0
    /\ Len(files) = 2
    /\ stage.wrote = 1
    /\ Len(det_signal) = 2

\* C12: however the receive loop stops (the user's ctrl-c, or the writer
\* ending the program once num_files is reached), the receive stream that was
\* activated before the loop has been deactivated and closed by the time the
\* program ends.
C12_StreamClosedWhenLoopStops ==
    (pc \in {"done", "exited"}) => stream = "closed"

\* C13: detect, and with it the writer, runs only for a buffer that a normal
\* successful read delivered (sr.ret equal to the buffer length); after an
\* overflow, a timeout or other error code, or a short read, detection is
\* skipped.
C13_DetectOnlyAfterNormalRead ==
    (reads > 0 /\ stage.detect = reads) => sr = pars.buff_len

====
